---- MODULE Spec2Model ----
(***************************************************************************)
(* The purchase request queue of MCP_PurchaseOrderFlow                     *)
(* (src/purchase_queue_tool.py), as served by the manage_purchase_queue    *)
(* tool of src/mcppoagent.py.                                              *)
(*                                                                         *)
(* The queue is one JSON file, data/purchase_queue.json, found through the *)
(* working directory.  Every PurchaseQueueTool object over that directory  *)
(* reads and rewrites the same file: the server of mcppoagent.py holds one *)
(* and the script entry point of purchase_queue_tool.py makes another.     *)
(* The class takes no lock, so the model lets the clients of the file      *)
(* interleave at the granularity of its file operations: one read of the   *)
(* whole file, the truncation done by open(..., 'w'), and the write of the *)
(* new content.  SpecSeq is the same machine with the calls served one at  *)
(* a time, as one event loop serves them.  SpecStore starts before the     *)
(* objects are built, over a data directory as an earlier run left it, and *)
(* serves the calls one at a time.                                         *)
(***************************************************************************)
EXTENDS Integers, Sequences, FiniteSets, TLC

\* ------------------------------------------------------------------ bounds
MaxClock == 1
TicksPerSecond == 1
MaxCalls == 4
MaxSeqCalls == 5
MaxStoreCalls == 3

\* the processes of the repository that hold a PurchaseQueueTool over the
\* same data directory: the server of mcppoagent.py, and purchase_queue_tool.py
\* run as a script
Clients == {"server", "script"}

VARIABLES
    file,        \* content of data/purchase_queue.json
    now,         \* the system clock, in ticks of datetime.now()
    pc,          \* pc[c]: where client c is inside manage_queue
    args,        \* args[c]: the arguments of the call c is serving
    data,        \* data[c]: queue_data, the document c holds in memory
    last,        \* the call that returned last, and what it returned
    returned,    \* request ids returned by successful add_to_queue calls
    completed,   \* request ids that mark_completed calls reported completed
    built,       \* built[c]: how __init__ of c's PurchaseQueueTool met the file
    scriptAt,    \* number of calls of __main__ the running script has made
    calls        \* number of calls made so far

vars == <<file, now, pc, args, data, last, returned, completed, built, scriptAt,
          calls>>

\* ---------------------------------------------------------- python values
\* None passed (or defaulted) for request_id, and for request_data.
NoneId == "None"
NoneData == [None |-> "None"]
EmptyDict == [k \in {} |-> ""]

\* a faulty check that takes an empty dict for request data
NotDataNoneOnly(d) == d = NoneData

\* `not request_data`, `not request_id`
NotData(d) == d = NoneData \/ DOMAIN d = {}
NotId(s) == s = NoneId \/ s = ""

\* payloads a validator may hand in; only the keys of SummaryKeys are rendered
TestRequest == [supplier_name |-> "A", total_cost |-> "1000"]

Payloads == { TestRequest, [supplier_name |-> "B", total_cost |-> "1000"] }

DataArgs == Payloads \cup {NoneData, EmptyDict}

\* ------------------------------------------------------------------ clock
\* datetime.now().strftime("%Y%m%d_%H%M%S"): the clock cut to whole seconds
Strftime(t) == ToString(t \div TicksPerSecond)

\* datetime.now().isoformat(): the full-resolution instant
Isoformat(t) == t

GenerateRequestId(t) == "PQ_" \o Strftime(t)

IdArgs ==
    { GenerateRequestId(t) : t \in 0..MaxClock } \cup {"PQ_nonexistent", "", NoneId}

\* --------------------------------------------------------------- the file
\* open(file, 'w') leaves the file with no content until the write lands.
EmptyFile == [kind |-> "empty"]
\* content json.load rejects: a document followed by the tail of a longer
\* one, length bytes in all
CorruptFile(length) == [kind |-> "corrupt", length |-> length]
\* no file at the path: os.path.exists is false, open(file, 'r') raises
\* FileNotFoundError
MissingFile == [kind |-> "missing"]
\* no document held in memory
NoDoc == [kind |-> "none"]

InitialData(t) ==
    [ kind |-> "doc",
      pending_requests |-> << >>,
      completed_requests |-> << >>,
      metadata |-> [created_at |-> Isoformat(t), last_updated |-> Isoformat(t)] ]

Readable(f) == f.kind = "doc"

NoArgs == [n |-> 0, action |-> "none", request_data |-> NoneData, request_id |-> NoneId]
NoResult == [call |-> NoArgs, kind |-> "none"]
\* c is inside __init__, which takes no argument of manage_queue
InitArgs == [n |-> 0, action |-> "__init__", request_data |-> NoneData, request_id |-> NoneId]

Init ==
    /\ file = InitialData(0)
    /\ now = 0
    /\ pc = [c \in Clients |-> "idle"]
    /\ args = [c \in Clients |-> NoArgs]
    /\ data = [c \in Clients |-> NoDoc]
    /\ last = NoResult
    /\ returned = << >>
    /\ completed = << >>
    /\ built = [c \in Clients |-> IF c = "server" THEN "created" ELSE "found"]
    /\ scriptAt = 0
    /\ calls = 0

Tick ==
    /\ now < MaxClock
    /\ now' = now + 1
    /\ UNCHANGED <<file, pc, args, data, last, returned, completed, built, scriptAt,
                   calls>>

\* ------------------------------------------------------- document helpers
SummaryKeys == {"budget_status", "total_cost", "supplier_count", "priority_items"}

\* the "Validation Summary" lines of one request: the summary keys it carries
Summary(vd) == [k \in (DOMAIN vd) \cap SummaryKeys |-> vd[k]]

\* the text block get_pending prints for one request
RenderRequest(request) ==
    [ request_id |-> request.request_id,
      timestamp |-> request.timestamp,
      status |-> request.status,
      has_summary |-> DOMAIN request.validation_data # {},
      summary |-> Summary(request.validation_data) ]

Render(pending) == [i \in 1..Len(pending) |-> RenderRequest(pending[i])]

\* a faulty search that goes on to the last request with this id
FindLast(pending, request_id) ==
    LET hits == { i \in 1..Len(pending) : pending[i].request_id = request_id }
    IN  IF hits = {} THEN 0 ELSE CHOOSE i \in hits : \A j \in hits : i >= j

\* index of the first request of pending with this id, 0 when there is none
\* (the for loop of _mark_completed returns at its first match)
FindFirst(pending, request_id) ==
    LET hits == { i \in 1..Len(pending) : pending[i].request_id = request_id }
    IN  IF hits = {} THEN 0 ELSE CHOOSE i \in hits : \A j \in hits : i <= j

\* pending_requests.pop(i)
Pop(s, i) == SubSeq(s, 1, i - 1) \o SubSeq(s, i + 1, Len(s))

\* a faulty stamping that leaves the status of the request as it was
CompletedRequestKeepsStatus(request, t) ==
    [ request_id |-> request.request_id,
      timestamp |-> request.timestamp,
      status |-> request.status,
      validation_data |-> request.validation_data,
      created_by |-> request.created_by,
      completed_at |-> Isoformat(t),
      processed_by |-> "purchase_order_agent" ]

\* the request as _mark_completed stamps it
CompletedRequest(request, t) ==
    [ request_id |-> request.request_id,
      timestamp |-> request.timestamp,
      status |-> "completed",
      validation_data |-> request.validation_data,
      created_by |-> request.created_by,
      completed_at |-> Isoformat(t),
      processed_by |-> "purchase_order_agent" ]

\* the request as _add_to_queue builds it
QueueItem(request_data, t) ==
    [ request_id |-> GenerateRequestId(t),
      timestamp |-> Isoformat(t),
      status |-> "pending",
      validation_data |-> request_data,
      created_by |-> "purchase_validation_agent" ]

\* ------------------------------------------------- steps inside a handler
\* c goes on with call a, holding document d, to the step named next
Continue(c, a, d, next) ==
    /\ pc' = [pc EXCEPT ![c] = next]
    /\ args' = [args EXCEPT ![c] = a]
    /\ data' = [data EXCEPT ![c] = d]
    /\ UNCHANGED <<last, returned, completed, built>>

\* c's call a returns r; ids are the request ids handed out so far
Returns(c, a, r, ids) ==
    /\ pc' = [pc EXCEPT ![c] = "idle"]
    /\ args' = [args EXCEPT ![c] = NoArgs]
    /\ data' = [data EXCEPT ![c] = NoDoc]
    /\ last' = [call |-> a] @@ r
    /\ returned' = ids
    /\ completed' = IF r.kind = "completed"
                    THEN Append(completed, r.request_id)
                    ELSE completed
    /\ UNCHANGED built

\* __init__ of c's object is over; how tells whether it made the file
Built(c, how) ==
    /\ pc' = [pc EXCEPT ![c] = "idle"]
    /\ args' = [args EXCEPT ![c] = NoArgs]
    /\ data' = [data EXCEPT ![c] = NoDoc]
    /\ built' = [built EXCEPT ![c] = how]
    /\ UNCHANGED <<last, returned, completed>>

\* a faulty _add_to_queue that puts the new request at the head of the list
AddToQueueAtHead(c, a, d) ==
    Continue(c, a,
             [d EXCEPT !.pending_requests = <<QueueItem(a.request_data, now)>> \o @],
             "save_open")

\* _add_to_queue from its load to its save
AddToQueue(c, a, d) ==
    Continue(c, a,
             [d EXCEPT !.pending_requests = Append(@, QueueItem(a.request_data, now))],
             "save_open")

\* a faulty _get_pending_requests that takes an empty list for a failure
GetPendingRequestsFailsOnEmpty(c, a, d) ==
    LET pending == d.pending_requests
    IN  IF pending = << >>
        THEN Returns(c, a, [kind |-> "error"], returned)
        ELSE Returns(c, a,
                     [kind |-> "pending", pending |-> pending, text |-> Render(pending)],
                     returned)

\* _get_pending_requests: the text returned, and the list it was printed from
GetPendingRequests(c, a, d) ==
    LET pending == d.pending_requests
    IN  Returns(c, a,
                [ kind |-> IF pending = << >> THEN "no_pending" ELSE "pending",
                  pending |-> pending,
                  text |-> Render(pending) ],
                returned)

\* a faulty _mark_completed that saves the document also when nothing matched
MarkCompletedSavesAnyway(c, a, d) ==
    LET pending_requests == d.pending_requests
        i == FindFirst(pending_requests, a.request_id)
    IN  IF i = 0
        THEN Continue(c, a, d, "save_open")
        ELSE Continue(c, a,
                 [d EXCEPT !.completed_requests =
                               Append(@, CompletedRequest(pending_requests[i], now)),
                           !.pending_requests = Pop(@, i)],
                 "save_open")

\* a faulty _mark_completed that puts the request at the head of
\* completed_requests
MarkCompletedAtHead(c, a, d) ==
    LET pending_requests == d.pending_requests
        i == FindFirst(pending_requests, a.request_id)
    IN  IF i = 0
        THEN Returns(c, a, [kind |-> "not_found"], returned)
        ELSE Continue(c, a,
                 [d EXCEPT !.completed_requests =
                               <<CompletedRequest(pending_requests[i], now)>> \o @,
                           !.pending_requests = Pop(@, i)],
                 "save_open")

\* _mark_completed from its load to its save, or to its not-found return
MarkCompleted(c, a, d) ==
    LET pending_requests == d.pending_requests
        i == FindFirst(pending_requests, a.request_id)
    IN  IF i = 0
        THEN Returns(c, a, [kind |-> "not_found"], returned)
        ELSE Continue(c, a,
                 [d EXCEPT !.completed_requests =
                               Append(@, CompletedRequest(pending_requests[i], now)),
                           !.pending_requests = Pop(@, i)],
                 "save_open")

\* a faulty _get_queue_status that counts every request as pending
GetQueueStatusCountsAll(c, a, d) ==
    Returns(c, a,
            [ kind |-> "status",
              pending_count |-> Len(d.pending_requests) + Len(d.completed_requests),
              completed_count |-> Len(d.completed_requests),
              last_updated |-> d.metadata.last_updated ],
            returned)

\* _get_queue_status: the three figures of the text returned
GetQueueStatus(c, a, d) ==
    Returns(c, a,
            [ kind |-> "status",
              pending_count |-> Len(d.pending_requests),
              completed_count |-> Len(d.completed_requests),
              last_updated |-> d.metadata.last_updated ],
            returned)

\* what a handler does with the document d that _load_queue gave it
Proceed(c, a, d) ==
    CASE a.action = "add_to_queue"   -> AddToQueue(c, a, d)
      [] a.action = "get_pending"    -> GetPendingRequests(c, a, d)
      [] a.action = "mark_completed" -> MarkCompleted(c, a, d)
      [] a.action = "get_status"     -> GetQueueStatus(c, a, d)

\* a faulty _load_queue that gives up when its first read fails
LoadQueueGivesUp(c, a) ==
    IF Readable(file)
    THEN Proceed(c, a, file)
    ELSE Returns(c, a, [kind |-> "error"], returned)

\* the first read of _load_queue; a file json.load rejects sends c to
\* _initialize_queue
LoadQueue(c, a) ==
    IF Readable(file)
    THEN Proceed(c, a, file)
    ELSE Continue(c, a, NoDoc, "init_open")

\* bytes json.dump(..., indent=2) writes for a list of n requests, w bytes each
JsonListLength(n, w) == IF n = 0 THEN 0 ELSE 2 + w * n

\* bytes json.dump(data, f, indent=2) writes for document d; every payload of
\* Payloads takes the same room
JsonLength(d) ==
    174 + JsonListLength(Len(d.pending_requests), 274)
        + JsonListLength(Len(d.completed_requests), 374)

FileLength(f) ==
    CASE f.kind = "doc"     -> JsonLength(f)
      [] f.kind = "corrupt" -> f.length
      [] f.kind = "empty"   -> 0
      [] f.kind = "missing" -> 0

\* what the buffered write of json.dump, flushed at offset 0 when the file is
\* closed, leaves in the file: document d when nothing longer was written
\* since this client's open(..., 'w'), else d followed by the tail of the
\* longer content
Written(d) ==
    IF JsonLength(d) >= FileLength(file) THEN d ELSE CorruptFile(FileLength(file))

KnownActions == {"add_to_queue", "get_pending", "mark_completed", "get_status"}

\* action names that none of the comparisons of manage_queue accepts
OtherActions == {"bogus", "GET_PENDING"}

CallArgs ==
    { [action |-> "add_to_queue", request_data |-> d, request_id |-> NoneId]
          : d \in DataArgs }
    \cup { [action |-> "mark_completed", request_data |-> NoneData, request_id |-> r]
          : r \in IdArgs }
    \cup { [action |-> x, request_data |-> NoneData, request_id |-> NoneId]
          : x \in {"get_pending", "get_status"} \cup OtherActions }

\* the calls the clients make while they overlap: those that get as far as
\* the file, with one payload (the payload is stored as it comes and decides
\* nothing).  The calls that return from their argument check, and the other
\* payloads, are made in SpecSeq.
FileCalls ==
    { in \in CallArgs :
        /\ in.action \in KnownActions
        /\ in.action = "add_to_queue" => in.request_data = TestRequest
        /\ in.action = "mark_completed" => ~NotId(in.request_id) }

\* -------------------------------------------------------------- the steps
\* a faulty manage_queue whose last branch serves get_status
ManageQueueElseStatus(c, in) ==
    /\ pc[c] = "idle"
    /\ calls' = calls + 1
    /\ UNCHANGED <<now, file>>
    /\ LET a == [n |-> calls + 1] @@ in
       IN  IF a.action \notin KnownActions
           THEN LoadQueue(c, [a EXCEPT !.action = "get_status"])
           ELSE IF a.action = "add_to_queue" /\ NotData(a.request_data)
           THEN Returns(c, a, [kind |-> "no_request_data"], returned)
           ELSE IF a.action = "mark_completed" /\ NotId(a.request_id)
           THEN Returns(c, a, [kind |-> "no_request_id"], returned)
           ELSE LoadQueue(c, a)

\* a call of manage_queue, up to and including the first read of the file
ManageQueue(c, in) ==
    /\ pc[c] = "idle"
    /\ calls' = calls + 1
    /\ UNCHANGED <<now, file>>
    /\ LET a == [n |-> calls + 1] @@ in
       IN  IF a.action \notin KnownActions
           THEN Returns(c, a, [kind |-> "unknown_action"], returned)
           ELSE IF a.action = "add_to_queue" /\ NotData(a.request_data)
           THEN Returns(c, a, [kind |-> "no_request_data"], returned)
           ELSE IF a.action = "mark_completed" /\ NotId(a.request_id)
           THEN Returns(c, a, [kind |-> "no_request_id"], returned)
           ELSE LoadQueue(c, a)

\* the calls of __main__ of purchase_queue_tool.py, in their order
MainCalls ==
    << [action |-> "add_to_queue", request_data |-> TestRequest, request_id |-> NoneId],
       [action |-> "get_pending", request_data |-> NoneData, request_id |-> NoneId],
       [action |-> "get_status", request_data |-> NoneData, request_id |-> NoneId] >>

\* client c calls manage_queue: the server with what its caller hands to
\* manage_purchase_queue, the script with the next call of __main__; after
\* the last one the script ends, and may be run again
Call(c, in) ==
    /\ ManageQueue(c, in)
    /\ IF c = "script"
       THEN /\ in = MainCalls[scriptAt + 1]
            /\ scriptAt' = (scriptAt + 1) % Len(MainCalls)
       ELSE scriptAt' = scriptAt

\* __init__: the file is initialized when os.path.exists finds none
Construct(c) ==
    /\ pc[c] = "new"
    /\ UNCHANGED <<now, file, calls, scriptAt>>
    /\ IF file.kind = "missing"
       THEN Continue(c, InitArgs, NoDoc, "init_open")
       ELSE Built(c, "found")

\* _initialize_queue: build the skeleton, then open(..., 'w')
InitializeOpen(c) ==
    /\ pc[c] = "init_open"
    /\ file' = EmptyFile
    /\ Continue(c, args[c], InitialData(now), "init_write")
    /\ UNCHANGED <<now, calls, scriptAt>>

\* _initialize_queue: json.dump and close
InitializeWrite(c) ==
    /\ pc[c] = "init_write"
    /\ file' = Written(data[c])
    /\ IF args[c].action = "__init__"
       THEN Built(c, "created")
       ELSE Continue(c, args[c], NoDoc, "reread")
    /\ UNCHANGED <<now, calls, scriptAt>>

\* a faulty _load_queue that initializes the file again when its second
\* read fails
RereadAgain(c) ==
    /\ pc[c] = "reread"
    /\ IF Readable(file)
       THEN Proceed(c, args[c], file)
       ELSE Continue(c, args[c], NoDoc, "init_open")
    /\ UNCHANGED <<now, calls, file, scriptAt>>

\* the second read of _load_queue; its failure is caught by manage_queue
Reread(c) ==
    /\ pc[c] = "reread"
    /\ IF Readable(file)
       THEN Proceed(c, args[c], file)
       ELSE Returns(c, args[c], [kind |-> "error"], returned)
    /\ UNCHANGED <<now, calls, file, scriptAt>>

\* _save_queue: stamp last_updated, then open(..., 'w')
SaveOpen(c) ==
    /\ pc[c] = "save_open"
    /\ file' = EmptyFile
    /\ Continue(c, args[c],
                [data[c] EXCEPT !.metadata.last_updated = Isoformat(now)],
                "save_write")
    /\ UNCHANGED <<now, calls, scriptAt>>

\* a faulty return of _add_to_queue that counts the pending requests as
\* they were before the append
SaveResultCountsBefore(a, d) ==
    IF a.action = "add_to_queue"
    THEN [ kind |-> "added",
           request_id |-> d.pending_requests[Len(d.pending_requests)].request_id,
           count |-> Len(d.pending_requests) - 1 ]
    ELSE [ kind |-> "completed",
           request_id |-> a.request_id,
           remaining |-> Len(d.pending_requests) ]

\* what _add_to_queue and _mark_completed return after their save
SaveResult(a, d) ==
    IF a.action = "add_to_queue"
    THEN [ kind |-> "added",
           request_id |-> d.pending_requests[Len(d.pending_requests)].request_id,
           count |-> Len(d.pending_requests) ]
    ELSE [ kind |-> "completed",
           request_id |-> a.request_id,
           remaining |-> Len(d.pending_requests) ]

\* _save_queue: json.dump and close; then the handler returns
SaveWrite(c) ==
    /\ pc[c] = "save_write"
    /\ file' = Written(data[c])
    /\ LET r == SaveResult(args[c], data[c])
       IN  Returns(c, args[c], r,
                   IF r.kind = "added" THEN Append(returned, r.request_id) ELSE returned)
    /\ UNCHANGED <<now, calls, scriptAt>>

Next ==
    \/ Tick
    \/ \E c \in Clients, in \in FileCalls : calls < MaxCalls /\ Call(c, in)
    \/ \E c \in Clients : InitializeOpen(c)
    \/ \E c \in Clients : InitializeWrite(c)
    \/ \E c \in Clients : Reread(c)
    \/ \E c \in Clients : SaveOpen(c)
    \/ \E c \in Clients : SaveWrite(c)

Spec == Init /\ [][Next]_vars

\* the calls served one at a time: a call starts only when no other is in
\* progress.  The file is then never read while it is empty, so the steps of
\* _initialize_queue never run.
AllIdle == \A c \in Clients : pc[c] = "idle"

NextSeq ==
    \/ Tick
    \/ \E c \in Clients, in \in CallArgs :
          calls < MaxSeqCalls /\ AllIdle /\ Call(c, in)
    \/ \E c \in Clients : SaveOpen(c)
    \/ \E c \in Clients : SaveWrite(c)

SpecSeq == Init /\ [][NextSeq]_vars

\* the store from before its objects are built, over a data directory as an
\* earlier run may have left it: without the file, with the file cut short
\* by an open(..., 'w') whose write never landed, with a torn file (content
\* json.load rejects, as overlapping saves leave it), or with a document.
\* The documents of an earlier run carry an earlier time.
StoredRequest == QueueItem(TestRequest, -1)

StoredDocument == [InitialData(-1) EXCEPT !.pending_requests = <<StoredRequest>>]

StoredFiles ==
    { MissingFile, EmptyFile, CorruptFile(JsonLength(StoredDocument) + 100),
      InitialData(-1), StoredDocument }

InitStore ==
    /\ file \in StoredFiles
    /\ now = 0
    /\ pc = [c \in Clients |-> "new"]
    /\ args = [c \in Clients |-> NoArgs]
    /\ data = [c \in Clients |-> NoDoc]
    /\ last = NoResult
    /\ returned = << >>
    /\ completed = << >>
    /\ built = [c \in Clients |-> "no"]
    /\ scriptAt = 0
    /\ calls = 0

\* no call and no __init__ is under way
Quiet == \A c \in Clients : pc[c] \in {"idle", "new"}

\* the objects are built and the calls served one at a time
NextStore ==
    \/ Tick
    \/ \E c \in Clients : Quiet /\ Construct(c)
    \/ \E c \in Clients, in \in CallArgs :
          calls < MaxStoreCalls /\ Quiet /\ Call(c, in)
    \/ \E c \in Clients : InitializeOpen(c)
    \/ \E c \in Clients : InitializeWrite(c)
    \/ \E c \in Clients : Reread(c)
    \/ \E c \in Clients : SaveOpen(c)
    \/ \E c \in Clients : SaveWrite(c)

SpecStore == InitStore /\ [][NextStore]_vars

\* ------------------------------------------------------------- the claims
\* the requests of a document, pending first
AllRequests(f) == f.pending_requests \o f.completed_requests

RequestIds(requests) == { requests[i].request_id : i \in 1..Len(requests) }

Distinct(s) == \A i, j \in 1..Len(s) : i # j => s[i] # s[j]

\* a call that changes the queue is between its load and its save
Mutating(c) == pc[c] \in {"save_open", "save_write"}

ReadActions == {"get_pending", "get_status"}

\* C1: in every state of the document each request_id occurs exactly once in
\* pending_requests and completed_requests taken together: never in both
\* lists and never twice in one.
C1_RequestIdInExactlyOneList ==
    Readable(file) =>
        Distinct([i \in 1..Len(AllRequests(file)) |-> AllRequests(file)[i].request_id])

\* C2: no two successful add_to_queue calls return the same request_id, also
\* when they happen within the same clock second.
C2_ReturnedIdsUnique == Distinct(returned)

\* C3: when every call made so far was an add_to_queue that returned
\* success, and all have finished, the document holds one request per call:
\* no admission was lost to another call's save.
C3_NoAdmissionLost ==
    (AllIdle /\ calls = Len(returned)) =>
        /\ Readable(file)
        /\ Len(AllRequests(file)) = Len(returned)

\* C4: at no time are two mutating calls both between their load of the
\* document and their save of it.
C4_MutationsExclusive ==
    \A c, d \in Clients : (c # d /\ Mutating(c)) => ~Mutating(d)

\* C5: a get_pending or get_status call never finds the file without a
\* fully written document in it (it never has to fall back on
\* _initialize_queue because a save was under way).
C5_ReadsSeeWholeDocument ==
    \A c \in Clients : args[c].action \in ReadActions => pc[c] # "init_open"

\* C6: at all times the request ids in the document are exactly the request
\* ids returned by successful add_to_queue calls.
C6_IdsAreTheAdmittedIds ==
    Readable(file) =>
        RequestIds(AllRequests(file)) = { returned[i] : i \in 1..Len(returned) }

\* number of requests of a list that carry payload x
CountData(requests, x) ==
    Cardinality({ i \in 1..Len(requests) : requests[i].validation_data = x })

\* this step is the call in, made by c right after the call recorded in last
CalledNext(c, in) == AllIdle /\ ManageQueue(c, in)

\* C7: mark_completed called twice in sequence with the id of a pending
\* request: after the first call succeeded, the second returns not-found
\* and leaves the file as the first call left it.
C7_SecondCompleteNotFound ==
    [][ \A c \in Clients, in \in CallArgs :
          ( /\ last.kind = "completed"
            /\ in.action = "mark_completed"
            /\ in.request_id = last.request_id
            /\ CalledNext(c, in) )
          => (last'.kind = "not_found" /\ last'.call.n = calls' /\ file' = file)
      ]_vars

\* C8: every completed request has status 'completed' and a completed_at
\* field; every pending request has status 'pending' and no completed_at.
C8_StatusMatchesList ==
    Readable(file) =>
        /\ \A i \in 1..Len(file.completed_requests) :
             /\ file.completed_requests[i].status = "completed"
             /\ "completed_at" \in DOMAIN file.completed_requests[i]
        /\ \A i \in 1..Len(file.pending_requests) :
             /\ file.pending_requests[i].status = "pending"
             /\ "completed_at" \notin DOMAIN file.pending_requests[i]

C8_Witness ==
    /\ Readable(file)
    /\ file.pending_requests # << >>
    /\ file.completed_requests # << >>

\* C9: mark_completed with a non-empty id that no pending request carries
\* returns not-found at once and leaves the file as it was, last_updated
\* included.
C9_NotFoundLeavesDocument ==
    [][ \A c \in Clients, in \in CallArgs :
          ( /\ in.action = "mark_completed"
            /\ ~NotId(in.request_id)
            /\ Readable(file)
            /\ in.request_id \notin RequestIds(file.pending_requests)
            /\ ManageQueue(c, in) )
          => ( /\ last'.kind = "not_found"
               /\ last'.call.n = calls'
               /\ pc'[c] = "idle"
               /\ file' = file )
      ]_vars

\* a not-found answer for an id that only a completed request carries
C9_Witness ==
    /\ last.kind = "not_found"
    /\ Readable(file)
    /\ last.call.request_id \in RequestIds(file.completed_requests)
    /\ last.call.request_id \notin RequestIds(file.pending_requests)

C11_StatusCounts ==
    [][ \A c \in Clients, in \in CallArgs :
          (in.action = "get_status" /\ CalledNext(c, in))
          => ( /\ last'.kind = "status"
               /\ last'.call.n = calls'
               /\ last'.pending_count = Len(returned) - Len(completed)
               /\ last'.completed_count = Len(completed) )
      ]_vars

\* three admitted, one completed, then get_status: it reports 2 and 1
C11_Witness ==
    /\ calls = 5
    /\ Len(returned) = 3
    /\ Len(completed) = 1
    /\ last.call.n = 5
    /\ last.kind = "status"
    /\ last.pending_count = 2
    /\ last.completed_count = 1

\* an empty skeleton: both lists empty, the two metadata entries present
IsSkeleton(f) ==
    /\ Readable(f)
    /\ f.pending_requests = << >>
    /\ f.completed_requests = << >>
    /\ DOMAIN f.metadata = {"created_at", "last_updated"}

\* some object found no file when it was built, and made it
FileCreated == \E c \in Clients : built[c] = "created"

\* C12: when __init__ finds no file it leaves an empty skeleton in its
\* place, and get_pending as the first call on that store returns the
\* no-pending-requests result, not an error, leaving the skeleton as it is.
C12_CreatedStoreListsNothing ==
    [][ /\ \A c \in Clients :
             (built[c] = "no" /\ built'[c] = "created") => IsSkeleton(file')
        /\ \A c \in Clients, in \in CallArgs :
             ( /\ FileCreated
               /\ calls = 0
               /\ in.action = "get_pending"
               /\ Quiet
               /\ ManageQueue(c, in) )
             => ( /\ last'.kind = "no_pending"
                  /\ last'.pending = << >>
                  /\ pc'[c] = "idle"
                  /\ IsSkeleton(file')
                  /\ file' = file )
      ]_vars

\* the file was made by __init__, and the one call since was get_pending
C12_Witness ==
    /\ FileCreated
    /\ calls = 1
    /\ last.call.n = 1
    /\ last.kind = "no_pending"
    /\ IsSkeleton(file)

\* C13: add_to_queue with request_data None or {} returns the
\* no-request-data error, and mark_completed with request_id None or ""
\* the no-request-id error; either returns at once, with the file neither
\* read (an unreadable file is not replaced) nor written, and nothing
\* admitted or completed.
C13_InvalidInputLeavesDocument ==
    [][ \A c \in Clients, in \in CallArgs :
          LET noData == in.action = "add_to_queue"
                            /\ in.request_data \in {NoneData, EmptyDict}
              noId == in.action = "mark_completed" /\ in.request_id \in {NoneId, ""}
          IN  ((noData \/ noId) /\ ManageQueue(c, in))
              => ( /\ last'.kind = IF noData THEN "no_request_data" ELSE "no_request_id"
                   /\ last'.call.n = calls'
                   /\ pc'[c] = "idle"
                   /\ file' = file
                   /\ returned' = returned
                   /\ completed' = completed )
      ]_vars

\* add_to_queue({}) was refused over a file that no load could have read
C13_Witness ==
    /\ last.kind = "no_request_data"
    /\ last.call.request_data = EmptyDict
    /\ last.call.n = calls
    /\ ~Readable(file)
    /\ Quiet

\* what call a of c does in this step when it goes on with an empty document
OnEmptyDocument(c, a) ==
    CASE a.action = "get_pending" ->
             last'.kind = "no_pending" /\ last'.call = a /\ pc'[c] = "idle"
      [] a.action = "get_status" ->
             /\ last'.kind = "status" /\ last'.call = a /\ pc'[c] = "idle"
             /\ last'.pending_count = 0 /\ last'.completed_count = 0
      [] a.action = "mark_completed" ->
             last'.kind = "not_found" /\ last'.call = a /\ pc'[c] = "idle"
      [] a.action = "add_to_queue" ->
             /\ pc'[c] = "save_open"
             /\ Len(data'[c].pending_requests) = 1
             /\ data'[c].completed_requests = << >>

\* C14: a call whose load finds no readable document goes on to
\* _initialize_queue, which truncates the file and writes an empty skeleton
\* over it; the call then reads the file a second time, once.  When that
\* read finds the skeleton the call goes on as on an empty queue; when it
\* finds no readable document either, the call returns the error result and
\* the file is not touched again.
C14_LoadRecoversOnce ==
    [][ \A c \in Clients :
          /\ (pc[c] = "idle" /\ pc'[c] # "idle" /\ ~Readable(file))
                => (pc'[c] = "init_open" /\ file' = file)
          /\ (pc[c] = "init_open" /\ pc'[c] # "init_open")
                => (pc'[c] = "init_write" /\ IsSkeleton(data'[c]) /\ file' = EmptyFile)
          /\ (pc[c] = "init_write" /\ pc'[c] # "init_write")
                => ( /\ pc'[c] = "reread"
                     /\ FileLength(file) = 0 => file' = data[c] )
          /\ (pc[c] = "reread" /\ pc'[c] # "reread")
                => ( /\ file' = file
                     /\ ~Readable(file)
                           => (pc'[c] = "idle" /\ last'.kind = "error" /\ last'.call = args[c])
                     /\ IsSkeleton(file) => OnEmptyDocument(c, args[c]) )
      ]_vars

\* a call has returned the error result: both its reads failed
C14_Witness ==
    /\ last.kind = "error"
    /\ last.call.action \in KnownActions
    /\ ~Readable(file)

\* C15: manage_queue with an action name that is none of add_to_queue,
\* get_pending, mark_completed and get_status returns the unknown-action
\* error at once (it raises nothing), and leaves the file as it is, readable
\* or not.
C15_UnknownActionLeavesDocument ==
    [][ \A c \in Clients, in \in CallArgs :
          ( /\ in.action \notin {"add_to_queue", "get_pending", "mark_completed", "get_status"}
            /\ ManageQueue(c, in) )
          => ( /\ last'.kind = "unknown_action"
               /\ last'.call.action = in.action
               /\ last'.call.n = calls'
               /\ pc'[c] = "idle"
               /\ file' = file
               /\ returned' = returned
               /\ completed' = completed )
      ]_vars

\* GET_PENDING was answered with the unknown-action error over a document
\* that holds a pending request
C15_Witness ==
    /\ last.kind = "unknown_action"
    /\ last.call.action = "GET_PENDING"
    /\ last.call.n = calls
    /\ Readable(file)
    /\ file.pending_requests # << >>

\* the request ids of a list, in the order of the list
IdsOf(requests) == [i \in 1..Len(requests) |-> requests[i].request_id]

\* sequence s without its first x
RemoveFirst(s, x) ==
    LET hits == { i \in 1..Len(s) : s[i] = x }
    IN  IF hits = {} THEN s
        ELSE LET i == CHOOSE i \in hits : \A j \in hits : i <= j
             IN  SubSeq(s, 1, i - 1) \o SubSeq(s, i + 1, Len(s))

RECURSIVE RemoveEach(_, _)
\* sequence s without one occurrence, the first left, of each entry of xs
RemoveEach(s, xs) ==
    IF xs = << >> THEN s ELSE RemoveEach(RemoveFirst(s, Head(xs)), Tail(xs))

\* C16: with the calls made one after the other, completed_requests lists
\* the completed requests in the order of their completion, each stamped no
\* earlier than the one before it, and pending_requests lists the admitted
\* requests that were not completed, in the order of their admission.
C16_ListsKeepOrder ==
    Readable(file) =>
        /\ IdsOf(file.completed_requests) = completed
        /\ IdsOf(file.pending_requests) = RemoveEach(returned, completed)
        /\ \A i, j \in 1..Len(file.pending_requests) :
             i < j => file.pending_requests[i].timestamp
                          <= file.pending_requests[j].timestamp
        /\ \A i, j \in 1..Len(file.completed_requests) :
             i < j => file.completed_requests[i].completed_at
                          <= file.completed_requests[j].completed_at

\* two requests with different ids were completed, the later admitted one
\* last, and one admitted between them is still pending
C16_Witness ==
    /\ Readable(file)
    /\ Len(file.completed_requests) = 2
    /\ file.completed_requests[1].request_id # file.completed_requests[2].request_id
    /\ file.completed_requests[1].timestamp < file.completed_requests[2].timestamp
    /\ Len(file.pending_requests) = 1
    /\ AllIdle

\* client c takes a step of a get_pending or get_status call
ReadStep(c) ==
    \/ \E in \in CallArgs : in.action \in ReadActions /\ ManageQueue(c, in)
    \/ args[c].action \in ReadActions /\ pc'[c] # pc[c]

\* C17 as stated: whatever the file holds, readable or not, no step of a
\* get_pending or get_status call changes it.
C17_ReadsNeverWrite ==
    [][ \A c \in Clients : ReadStep(c) => file' = file ]_vars

\* C17 amended: get_pending and get_status answer from a readable file in
\* the step of the call and leave it exactly as it was; over a file that
\* holds no readable document they go to _initialize_queue, and by the time
\* they answer the file holds an empty skeleton, which they report on.
C17_ReadsLeaveReadableFile ==
    [][ \A c \in Clients :
          /\ \A in \in CallArgs :
               (in.action \in ReadActions /\ Quiet /\ ManageQueue(c, in))
               => IF Readable(file)
                  THEN /\ file' = file
                       /\ pc'[c] = "idle"
                       /\ last'.call.n = calls'
                       /\ last'.kind \in {"no_pending", "pending", "status"}
                  ELSE pc'[c] = "init_open" /\ file' = file
          /\ (args[c].action \in ReadActions /\ pc[c] = "reread" /\ pc'[c] # "reread")
               => ( /\ IsSkeleton(file)
                    /\ file.metadata.created_at >= 0
                    /\ file' = file
                    /\ OnEmptyDocument(c, args[c]) )
      ]_vars

\* the one call made was get_status, no __init__ made the file, and the
\* file now holds a skeleton written in this run: the call wrote it
C17_Witness ==
    /\ calls = 1
    /\ last.call.n = 1
    /\ last.kind = "status"
    /\ ~FileCreated
    /\ IsSkeleton(file)
    /\ file.metadata.created_at >= 0

\* list after is list before without its i-th request
WithoutIth(before, after, i) ==
    /\ Len(after) = Len(before) - 1
    /\ \A j \in 1..Len(after) : after[j] = before[IF j < i THEN j ELSE j + 1]

\* C18: with the calls made one after the other, mark_completed with an id
\* that some pending request carries moves the first pending request with
\* that id and no other: the document it saves has that one request
\* removed from pending_requests and put, stamped, at the end of
\* completed_requests, also when other pending requests carry the same id;
\* the file then holds that document and the call reports it completed.
C18_MovesFirstMatchOnly ==
    [][ /\ \A c \in Clients, in \in CallArgs :
             ( /\ in.action = "mark_completed"
               /\ Readable(file)
               /\ in.request_id \in RequestIds(file.pending_requests)
               /\ CalledNext(c, in) )
             => \E i \in 1..Len(file.pending_requests) :
                  LET before == file.pending_requests
                      d == data'[c]
                      moved == d.completed_requests[Len(d.completed_requests)]
                  IN  /\ before[i].request_id = in.request_id
                      /\ \A j \in 1..(i - 1) : before[j].request_id # in.request_id
                      /\ pc'[c] = "save_open"
                      /\ WithoutIth(before, d.pending_requests, i)
                      /\ Len(d.completed_requests) = Len(file.completed_requests) + 1
                      /\ SubSeq(d.completed_requests, 1, Len(file.completed_requests))
                            = file.completed_requests
                      /\ moved.request_id = in.request_id
                      /\ moved.validation_data = before[i].validation_data
                      /\ moved.timestamp = before[i].timestamp
                      /\ moved.status = "completed"
        /\ \A c \in Clients :
             (args[c].action = "mark_completed" /\ pc[c] = "save_write" /\ pc'[c] = "idle")
             => ( /\ Readable(file')
                  /\ file'.pending_requests = data[c].pending_requests
                  /\ file'.completed_requests = data[c].completed_requests
                  /\ last'.kind = "completed"
                  /\ last'.request_id = args[c].request_id
                  /\ last'.remaining = Len(file'.pending_requests) )
      ]_vars

\* a request was completed while another pending request carries its id and
\* another payload
C18_Witness ==
    /\ last.kind = "completed"
    /\ AllIdle
    /\ Readable(file)
    /\ \E i \in 1..Len(file.pending_requests) :
          /\ file.pending_requests[i].request_id = last.request_id
          /\ file.pending_requests[i].validation_data
                # file.completed_requests[Len(file.completed_requests)].validation_data

\* every save stamps last_updated with the time of the save and writes it
LastUpdatedRewritten ==
    \A c \in Clients :
        /\ (pc[c] = "save_open" /\ pc'[c] = "save_write")
              => data'[c].metadata.last_updated = Isoformat(now)
        /\ (pc[c] = "save_write" /\ pc'[c] = "idle" /\ Readable(file'))
              => file'.metadata.last_updated = data[c].metadata.last_updated

\* C19: whatever the clients do, a document in the file carries the
\* created_at that the first document written carried, and every save
\* (of a successful add_to_queue or mark_completed) rewrites last_updated.
C19_CreatedAtNeverChanges ==
    [][ /\ Readable(file')
              => file'.metadata.created_at = InitialData(0).metadata.created_at
        /\ LastUpdatedRewritten
      ]_vars

\* C20: with the calls made one after the other, add_to_queue with a
\* non-empty payload saves the document it loaded with one request more:
\* the pending requests as they were, then the new one with status
\* 'pending' and the payload as validation_data, and completed_requests as
\* it was; it returns the number of pending requests there were before the
\* call plus 1.
C20_AdmitAddsOne ==
    [][ /\ \A c \in Clients, in \in CallArgs :
             ( /\ in.action = "add_to_queue"
               /\ in.request_data \in Payloads
               /\ CalledNext(c, in) )
             => LET before == file.pending_requests
                    d == data'[c]
                    item == d.pending_requests[Len(before) + 1]
                IN  /\ pc'[c] = "save_open"
                    /\ Len(d.pending_requests) = Len(before) + 1
                    /\ SubSeq(d.pending_requests, 1, Len(before)) = before
                    /\ d.completed_requests = file.completed_requests
                    /\ item.status = "pending"
                    /\ item.validation_data = in.request_data
                    /\ "completed_at" \notin DOMAIN item
        /\ \A c \in Clients :
             (args[c].action = "add_to_queue" /\ pc[c] = "save_open" /\ pc'[c] # "save_open")
             => ( /\ data'[c].pending_requests = data[c].pending_requests
                  /\ data'[c].completed_requests = data[c].completed_requests )
        /\ \A c \in Clients :
             (args[c].action = "add_to_queue" /\ pc[c] = "save_write" /\ pc'[c] = "idle")
             => ( /\ Readable(file')
                  /\ file'.pending_requests = data[c].pending_requests
                  /\ file'.completed_requests = data[c].completed_requests
                  /\ last'.kind = "added"
                  /\ last'.count = Len(data[c].pending_requests)
                  /\ last'.request_id
                       = file'.pending_requests[Len(file'.pending_requests)].request_id )
      ]_vars

\* a request was admitted to a document that held a pending and a completed
\* request: the call returned 2
C20_Witness ==
    /\ last.kind = "added"
    /\ last.count = 2
    /\ last.call.n = calls
    /\ AllIdle
    /\ Readable(file)
    /\ Len(file.pending_requests) = 2
    /\ Len(file.completed_requests) = 1

\* number of entries of sequence s that equal x
CountIn(s, x) == Cardinality({ i \in 1..Len(s) : s[i] = x })

\* C21: under every interleaving, a request that mark_completed reported
\* completed stays completed: for every request id the document lists at
\* least as many completed requests as calls reported completed, and no
\* more pending requests than were admitted and not reported completed.
C21_CompletionPermanent ==
    Readable(file) =>
        \A x \in RequestIds(AllRequests(file)) \cup { completed[i] : i \in 1..Len(completed) } :
            /\ CountIn(IdsOf(file.completed_requests), x) >= CountIn(completed, x)
            /\ CountIn(IdsOf(file.pending_requests), x)
                  <= CountIn(returned, x) - CountIn(completed, x)

\* C22: under every interleaving, no admitted request is reported completed
\* twice: for every request id, mark_completed returned success at most as
\* many times as add_to_queue handed that id out (of two overlapping
\* mark_completed calls for one pending request, one returns not-found).
C22_CompletedAtMostOnce ==
    \A x \in { completed[i] : i \in 1..Len(completed) } :
        CountIn(completed, x) <= CountIn(returned, x)

====
